---- MODULE Spec2Model ----
(***************************************************************************)
(* A model of consola's reporter pipeline: the box renderer                *)
(* (src/utils/box.ts), the Basic reporter (reporters/basic.ts) and the     *)
(* Fancy reporter (reporters/fancy.ts).                                    *)
(*                                                                         *)
(* A JavaScript string is modelled as a sequence of chunks.  A chunk is    *)
(*   - an SGR escape sequence, written "ESC[<n>m" (the three letters ESC   *)
(*     stand for the single character \x1b),                               *)
(*   - a box-drawing or icon glyph, written "U+<code point>" (one UTF-16   *)
(*     code unit),                                                         *)
(*   - the line break "\n", or                                             *)
(*   - a run of ordinary printable characters.                             *)
(***************************************************************************)
EXTENDS Integers, Sequences, FiniteSets, TLC

VARIABLES call, ret, stdout, stderr

vars == <<call, ret, stdout, stderr>>

(***************************************************************************)
(* Bounds of the model.                                                    *)
(***************************************************************************)
MaxLines == 2
MaxPadding == 3

(***************************************************************************)
(* Strings.                                                                *)
(***************************************************************************)
NL == "\n"

AnsiSeqs ==
  { "ESC[30m", "ESC[31m", "ESC[32m", "ESC[33m", "ESC[35m", "ESC[36m",
    "ESC[37m", "ESC[90m", "ESC[39m",
    "ESC[41m", "ESC[42m", "ESC[43m", "ESC[45m", "ESC[46m", "ESC[47m",
    "ESC[49m" }

Glyphs ==
  { "U+250C", "U+2510", "U+2514", "U+2518", "U+2500", "U+2502",
    "U+2554", "U+2557", "U+255A", "U+255D", "U+2550", "U+2551",
    "U+2553", "U+2556", "U+2559", "U+255C",
    "U+256D", "U+256E", "U+2570", "U+256F",
    "U+250F", "U+2513", "U+2517", "U+251B", "U+2501", "U+2503",
    "U+2552", "U+2555", "U+2558", "U+255B",
    "U+2714", "U+2716", "U+26A0", "U+2139", "U+2699", "U+2192", "U+25D0",
    "U+00D7", "U+221A", "U+203C", "U+0060" }

Backtick == "U+0060"

Max(S) == CHOOSE m \in S : \A x \in S : x <= m

\* The element of a singleton.  Only({F(x) : x \in {v}}) is F applied to the
\* value of v, computed once (const x = v; ... F(x)).
Only(S) == CHOOSE r \in S : TRUE

\* String.prototype.length: the number of UTF-16 code units, escape
\* sequences included.
ChunkLength(c) ==
  IF c \in AnsiSeqs THEN Len(c) - 2 ELSE IF c \in Glyphs THEN 1 ELSE Len(c)

RECURSIVE JsLength(_)
JsLength(s) ==
  IF s = <<>> THEN 0
  ELSE IF Len(s) = 1 THEN ChunkLength(s[1])
  ELSE JsLength(SubSeq(s, 1, Len(s) \div 2))
         + JsLength(SubSeq(s, Len(s) \div 2 + 1, Len(s)))

\* String.prototype.repeat for a count >= 0 (a negative count is a RangeError,
\* raised by the callers below).
Repeat(s, n) ==
  IF n <= 0 \/ s = <<>> THEN <<>>
  ELSE [i \in 1..(n * Len(s)) |-> s[((i - 1) % Len(s)) + 1]]

\* String.prototype.split("\n"): always at least one element.
RECURSIVE Split(_)
Split(s) ==
  IF \A i \in 1..Len(s) : s[i] # NL
  THEN <<s>>
  ELSE LET i == CHOOSE j \in 1..Len(s) :
                  s[j] = NL /\ \A k \in 1..(j - 1) : s[k] # NL
       IN  <<SubSeq(s, 1, i - 1)>> \o Split(SubSeq(s, i + 1, Len(s)))

\* Array.prototype.join(sep)
RECURSIVE Join(_, _)
Join(ss, sep) ==
  IF ss = <<>> THEN <<>>
  ELSE IF Len(ss) = 1 THEN ss[1]
  ELSE ss[1] \o sep \o Join(Tail(ss), sep)

\* utils/string stripAnsi: removes every escape sequence.
StripAnsi(s) == SelectSeq(s, LAMBDA c : c \notin AnsiSeqs)

\* string-width: display columns, escape sequences and control characters
\* not counted.
StringWidth(s) == JsLength(SelectSeq(s, LAMBDA c : c \notin AnsiSeqs /\ c # NL))

(***************************************************************************)
(* colorette: each colour is an <<open, close>> pair of escape sequences.  *)
(***************************************************************************)
Colorette ==
  [ black |-> <<"ESC[30m", "ESC[39m">>, red |-> <<"ESC[31m", "ESC[39m">>,
    green |-> <<"ESC[32m", "ESC[39m">>, yellow |-> <<"ESC[33m", "ESC[39m">>,
    magenta |-> <<"ESC[35m", "ESC[39m">>, cyan |-> <<"ESC[36m", "ESC[39m">>,
    white |-> <<"ESC[37m", "ESC[39m">>, gray |-> <<"ESC[90m", "ESC[39m">>,
    bgRed |-> <<"ESC[41m", "ESC[49m">>, bgGreen |-> <<"ESC[42m", "ESC[49m">>,
    bgYellow |-> <<"ESC[43m", "ESC[49m">>, bgMagenta |-> <<"ESC[45m", "ESC[49m">>,
    bgCyan |-> <<"ESC[46m", "ESC[49m">>, bgWhite |-> <<"ESC[47m", "ESC[49m">> ]

\* colorette's colour function: the string unchanged without colour support,
\* "" for "", else open + string + close with every embedded close replaced
\* by a re-opening of this colour.
Colorize(name, s, color) ==
  IF ~color THEN s
  ELSE IF s = <<>> THEN <<>>
  ELSE LET open == Colorette[name][1]
           close == Colorette[name][2]
       IN  <<open>> \o [i \in 1..Len(s) |-> IF s[i] = close THEN open ELSE s[i]]
             \o <<close>>

(***************************************************************************)
(* utils/box.ts                                                            *)
(***************************************************************************)
boxStylePresets ==
  "solid" :>
      [tl |-> "U+250C", tr |-> "U+2510", bl |-> "U+2514", br |-> "U+2518",
       h |-> "U+2500", v |-> "U+2502"]
  @@ "double" :>
      [tl |-> "U+2554", tr |-> "U+2557", bl |-> "U+255A", br |-> "U+255D",
       h |-> "U+2550", v |-> "U+2551"]
  @@ "double-single" :>
      [tl |-> "U+2553", tr |-> "U+2556", bl |-> "U+2559", br |-> "U+255C",
       h |-> "U+2500", v |-> "U+2551"]
  @@ "double-single-rounded" :>
      [tl |-> "U+256D", tr |-> "U+256E", bl |-> "U+2570", br |-> "U+256F",
       h |-> "U+2500", v |-> "U+2551"]
  @@ "single-thick" :>
      [tl |-> "U+250F", tr |-> "U+2513", bl |-> "U+2517", br |-> "U+251B",
       h |-> "U+2501", v |-> "U+2503"]
  @@ "single-double" :>
      [tl |-> "U+2552", tr |-> "U+2555", bl |-> "U+2558", br |-> "U+255B",
       h |-> "U+2550", v |-> "U+2502"]
  @@ "single-double-rounded" :>
      [tl |-> "U+256D", tr |-> "U+256E", bl |-> "U+2570", br |-> "U+256F",
       h |-> "U+2550", v |-> "U+2502"]
  @@ "rounded" :>
      [tl |-> "U+256D", tr |-> "U+256E", bl |-> "U+2570", br |-> "U+256F",
       h |-> "U+2500", v |-> "U+2502"]

defaultStyle ==
  [borderColor |-> "white", borderStyle |-> [name |-> "solid"],
   valign |-> "center", padding |-> 2]

\* { ...defaultStyle, ..._opts.style }: a key of _opts.style overrides the
\* default, an absent key keeps it.
MergeStyle(style) ==
  [k \in DOMAIN defaultStyle |->
     IF k \in DOMAIN style THEN style[k] ELSE defaultStyle[k]]

Returned(v) == [ok |-> TRUE, value |-> v]
Thrown(e) == [ok |-> FALSE, error |-> e]

PaddingOffset(padding) == IF padding % 2 = 0 THEN padding ELSE padding + 1

LineLength(line) == JsLength(line)

BoxWidth(textLines, paddingOffset) ==
  Max({LineLength(textLines[i]) : i \in 1..Len(textLines)}) + paddingOffset

ValignOffset_CenterAtTop(valign, height, numLines, paddingOffset) ==
  IF valign = "center" THEN height - numLines - paddingOffset
  ELSE IF valign = "top" THEN height - numLines - paddingOffset
  ELSE height - numLines

ValignOffset(valign, height, numLines, paddingOffset) ==
  IF valign = "center" THEN (height - numLines) \div 2
  ELSE IF valign = "top" THEN height - numLines - paddingOffset
  ELSE height - numLines

RightFill_RawLength(line, width) == width - JsLength(line)

RightFill(line, width) == width - JsLength(StripAnsi(line))

\* box(text, _opts): the result is Returned(string) or Thrown(exception).
\* "x".repeat(n) throws RangeError for n < 0, where the code reaches it: in
\* the top border, in a row of the height rows, in the bottom border.
\* A border style is [name |-> preset name] or [glyphs |-> six glyphs].
Box(text, _opts, color) ==
  LET style == MergeStyle(_opts.style)
      textLines == Split(text)
      Color(s) ==
        IF style.borderColor \in DOMAIN Colorette
        THEN Colorize(style.borderColor, s, color) ELSE s
      chars ==
        IF "name" \in DOMAIN style.borderStyle
        THEN IF style.borderStyle.name \in DOMAIN boxStylePresets
             THEN boxStylePresets[style.borderStyle.name]
             ELSE <<>>
        ELSE style.borderStyle.glyphs
      borderStyle == [k \in DOMAIN chars |-> Color(<<chars[k]>>)]
      paddingOffset == PaddingOffset(style.padding)
      height == Len(textLines) + paddingOffset
      width == BoxWidth(textLines, paddingOffset)
      widthOffset == width + paddingOffset
      title == _opts.title
      leftCount == (width - JsLength(StripAnsi(title))) \div 2
      left == Repeat(borderStyle.h, leftCount)
      rightCount ==
        width - JsLength(StripAnsi(title)) - JsLength(StripAnsi(left))
          + paddingOffset
      top ==
        IF title # <<>>
        THEN borderStyle.tl \o left \o title
               \o Repeat(borderStyle.h, rightCount) \o borderStyle.tr
        ELSE borderStyle.tl \o Repeat(borderStyle.h, widthOffset)
               \o borderStyle.tr
      valignOffset ==
        ValignOffset(style.valign, height, Len(textLines), paddingOffset)
      IsTextRow(i) ==
        ~(i < valignOffset \/ i >= valignOffset + Len(textLines))
      Middle(i) ==
        IF ~IsTextRow(i)
        THEN borderStyle.v \o Repeat(<<" ">>, widthOffset) \o borderStyle.v
        ELSE LET line == textLines[i - valignOffset + 1]
             IN  borderStyle.v \o Repeat(<<" ">>, paddingOffset) \o line
                   \o Repeat(<<" ">>, RightFill(line, width)) \o borderStyle.v
      bottom ==
        borderStyle.bl \o Repeat(borderStyle.h, widthOffset) \o borderStyle.br
      boxLines ==
        <<top>> \o [i \in 1..height |-> Middle(i - 1)] \o <<bottom>>
  IN  IF "h" \notin DOMAIN borderStyle THEN Thrown("TypeError")
      ELSE IF title # <<>> /\ (leftCount < 0 \/ rightCount < 0)
      THEN Thrown("RangeError")
      ELSE IF title = <<>> /\ widthOffset < 0 THEN Thrown("RangeError")
      ELSE IF \E i \in 0..(height - 1) :
                IF IsTextRow(i)
                THEN \/ paddingOffset < 0
                     \/ RightFill(textLines[i - valignOffset + 1], width) < 0
                ELSE widthOffset < 0
      THEN Thrown("RangeError")
      ELSE IF widthOffset < 0 THEN Thrown("RangeError")
      ELSE Returned(Join(boxLines, <<NL>>))

(***************************************************************************)
(* Inputs of box().                                                        *)
(***************************************************************************)
BoxLineInputs ==
  { <<>>, <<"a">>, <<"bcd">>, <<"ESC[36m", "ef", "ESC[39m">> }

BoxTextInputs ==
  UNION { { Join(ls, <<NL>>) : ls \in [1..n -> BoxLineInputs] } : n \in 1..MaxLines }

BoxTitleInputs ==
  { <<>>, <<"T">>, <<"ESC[31m", "T", "ESC[39m">>, <<"a long title">> }

BorderStyleInputs ==
  { [name |-> "solid"], [name |-> "double"], [name |-> "dotted"],
    [glyphs |-> [tl |-> "+", tr |-> "+", bl |-> "+", br |-> "+",
                 h |-> "-", v |-> "|"]] }

\* No style, every combination of the four keys, each preset by name with
\* the other keys left to their defaults, and negative paddings.
BoxStyleInputs ==
  { <<>> } \cup
  [ borderColor : {"white", "orange"}, borderStyle : BorderStyleInputs,
    valign : {"top", "center", "bottom"}, padding : 0..MaxPadding ] \cup
  { [borderStyle |-> [name |-> n]] : n \in DOMAIN boxStylePresets } \cup
  [ padding : {-3, -2, -1}, valign : {"top", "center", "bottom"} ]

NoCall == [op |-> "none"]

Init ==
  /\ call = NoCall
  /\ ret = Returned(<<>>)
  /\ stdout = <<>>
  /\ stderr = <<>>

\* box(text, { title, style }), a pure function: one call per behaviour
CallBox ==
  /\ call = NoCall
  /\ \E text \in BoxTextInputs, title \in BoxTitleInputs,
       style \in BoxStyleInputs, color \in BOOLEAN :
      /\ call' = [op |-> "box", text |-> text, title |-> title,
                  style |-> style, color |-> color]
      /\ ret' = Box(text, [title |-> title, style |-> style], color)
      /\ UNCHANGED <<stdout, stderr>>

NextBox == CallBox

SpecBox == Init /\ [][NextBox]_vars

(***************************************************************************)
(* utils/error parseStack and the error formatter of reporters/basic.ts    *)
(* and reporters/fancy.ts.                                                 *)
(*                                                                         *)
(* Error objects live in a heap: a function from object ids to             *)
(* [message, stack, cause], cause = 0 for no cause.  White space is always *)
(* written as single-space chunks.                                         *)
(***************************************************************************)
RECURSIVE TrimStart(_)
TrimStart(s) ==
  IF s # <<>> /\ Head(s) = " " THEN TrimStart(Tail(s)) ELSE s

RECURSIVE TrimEnd(_)
TrimEnd(s) ==
  IF s # <<>> /\ s[Len(s)] = " " THEN TrimEnd(SubSeq(s, 1, Len(s) - 1)) ELSE s

Trim(s) == TrimEnd(TrimStart(s))

\* parseStack(stack): the lines of the trace after the header line, trimmed,
\* those that are stack locations ("at ...").
ParseStack(stack) ==
  LET lines == Tail(Split(stack))
      trimmed == [i \in 1..Len(lines) |-> Trim(lines[i])]
  IN  SelectSeq(trimmed, LAMBDA l : l # <<>> /\ Head(l) = "at ")

Indent(level) == Repeat(<<" ", " ">>, level + 1)

\* BasicReporter.formatStack(stack, opts)
BasicFormatStack(stack, opts) ==
  Indent(opts.errorLevel)
    \o Join(ParseStack(stack), <<NL>> \o Indent(opts.errorLevel))

\* line.replace(/^at +/, gray).replace(/\((.+)\)/, "(" + cyan + ")"): the
\* first replace matches "at" and every space that follows it.
FancyFrame(line, color) ==
  LET rest == IF line # <<>> THEN TrimStart(Tail(line)) ELSE <<>>
      l1 == IF line # <<>> /\ Head(line) = "at "
            THEN Colorize("gray", SubSeq(line, 1, Len(line) - Len(rest)), color)
                   \o rest
            ELSE line
      opens == {i \in 1..Len(l1) :
                  l1[i] = "(" /\ \E j \in (i + 2)..Len(l1) : l1[j] = ")"}
  IN  IF opens = {} THEN l1
      ELSE LET i == CHOOSE a \in opens : \A b \in opens : a <= b
               j == Max({k \in (i + 2)..Len(l1) : l1[k] = ")"})
           IN  SubSeq(l1, 1, i)
                 \o Colorize("cyan", SubSeq(l1, i + 1, j - 1), color)
                 \o SubSeq(l1, j, Len(l1))

FancyIndent(level) == <<" ", " ">>

\* FancyReporter.formatStack(stack)
FancyFormatStack(stack, opts, color) ==
  LET lines == ParseStack(stack)
  IN  <<NL>> \o
      Join([i \in 1..Len(lines) |->
              FancyIndent(opts.errorLevel) \o FancyFrame(lines[i], color)],
           <<NL>>)

\* this.formatStack(stack, opts), dispatched on the reporter class
FormatStack(reporter, stack, opts, color) ==
  IF reporter = "fancy" THEN FancyFormatStack(stack, opts, color)
  ELSE BasicFormatStack(stack, opts)

\* The depth of nested calls after which the engine raises
\* "RangeError: Maximum call stack size exceeded".
MaxCallDepth == 4

CausedPrefix(level) ==
  IF level > 0 THEN Repeat(<<" ", " ">>, level) \o <<"[cause]: ">> ELSE <<>>

\* BasicReporter.formatError(err, opts), inherited by FancyReporter.  depth
\* counts the nested activations of formatError.
RECURSIVE FormatError(_, _, _, _, _, _)
FormatError(reporter, heap, err, opts, color, depth) ==
  IF depth > MaxCallDepth THEN Thrown("RangeError")
  ELSE
    LET message == heap[err].message
        stack == IF heap[err].stack # <<>>
                 THEN FormatStack(reporter, heap[err].stack, opts, color)
                 ELSE <<>>
        level == opts.errorLevel
        causedPrefix == CausedPrefix(level)
    IN  IF heap[err].cause = 0
        THEN Returned(causedPrefix \o message \o <<NL>> \o stack)
        ELSE Only({ IF ~caused.ok THEN caused
                    ELSE Returned(causedPrefix \o message \o <<NL>> \o stack
                                    \o <<NL, NL>> \o caused.value) :
                    caused \in
                      { FormatError(reporter, heap, heap[err].cause,
                                    [opts EXCEPT !.errorLevel = level + 1],
                                    color, depth + 1) } })

(***************************************************************************)
(* Inputs of formatError: heaps of MaxErrors error objects, rooted at 1.   *)
(***************************************************************************)
MaxErrors == 2

ErrIds == 1..MaxErrors

FrameFn(e) == "f" \o ToString(e) \o " "

ErrMessage(e) == <<"boom" \o ToString(e)>>

\* err.stack: no stack, two frames, two frames around a line that is no
\* stack location, or two frames with two spaces after the first "at".
ErrStack(e, kind) ==
  IF kind = "none" THEN <<>>
  ELSE <<"Error: boom" \o ToString(e), NL, " ", " ", " ", " ", "at ">>
       \o (IF kind = "wide" THEN <<" ">> ELSE <<>>)
       \o <<FrameFn(e), "(", "file.js:1:1", ")", NL>>
       \o (IF kind = "mixed" THEN <<" ", " ", "[internal]", NL>> ELSE <<>>)
       \o <<" ", " ", " ", " ", "at ", FrameFn(e), "(", "lib.js:2:2", ")">>

HeapInputs ==
  { [e \in ErrIds |->
       [message |-> ErrMessage(e), stack |-> ErrStack(e, kinds[e]),
        cause |-> causes[e]]] :
    kinds \in [ErrIds -> {"none", "frames", "mixed", "wide"}],
    causes \in [ErrIds -> 0..MaxErrors] }

\* The objects of the cause chain of the root, the root at depth 0.
RECURSIVE ChainFrom(_, _, _)
ChainFrom(heap, err, n) ==
  IF n = 0 \/ err = 0 THEN <<>>
  ELSE <<err>> \o ChainFrom(heap, heap[err].cause, n - 1)

Chain(heap) == ChainFrom(heap, 1, MaxErrors + 1)

Cyclic(heap) == Len(Chain(heap)) > MaxErrors

DefaultOpts == [columns |-> 0, date |-> FALSE, errorLevel |-> 0]

\* reporter.formatError(err, opts) on the root of a heap
CallFormatError ==
  /\ call = NoCall
  /\ \E reporter \in {"basic", "fancy"}, heap \in HeapInputs,
        color \in BOOLEAN :
       /\ call' = [op |-> "formatError", reporter |-> reporter,
                   heap |-> heap, color |-> color]
       /\ ret' = FormatError(reporter, heap, 1, DefaultOpts, color, 1)
       /\ UNCHANGED <<stdout, stderr>>

NextError == CallFormatError

SpecError == Init /\ [][NextError]_vars

(***************************************************************************)
(* reporters/basic.ts                                                      *)
(*                                                                         *)
(* A log object is [type, level, args, tag, title, date, icon] with an     *)
(* optional badge and an optional style; an argument is [str |-> string]   *)
(* or [err |-> id of an error object of the heap].                         *)
(***************************************************************************)
Bracket(x) == IF x # <<>> THEN <<"[">> \o x \o <<"]">> ELSE <<>>

\* util.formatWithOptions(opts, ...strings) for strings without format
\* specifiers: the strings joined by a space.
FormatWithOptions(strs) == Join(strs, <<" ">>)

\* BasicReporter.formatArgs(args, opts)
FormatArgs(reporter, args, heap, opts, color) ==
  Only({ IF \E i \in 1..Len(args) : ~_args[i].ok
         THEN Thrown("RangeError")
         ELSE Returned(FormatWithOptions(
                         [i \in 1..Len(args) |-> _args[i].value])) :
         _args \in
           { [i \in 1..Len(args) |->
                IF "err" \in DOMAIN args[i]
                THEN FormatError(reporter, heap, args[i].err, opts, color, 1)
                ELSE Returned(args[i].str)] } })

TwoDigits(n) == IF n < 10 THEN "0" \o ToString(n) ELSE ToString(n)

\* Date.prototype.toLocaleTimeString() in the en-US locale: "h:mm:ss AM".
ToLocaleTimeString(date) ==
  << ToString(IF date.h % 12 = 0 THEN 12 ELSE date.h % 12) \o ":"
       \o TwoDigits(date.m) \o ":" \o TwoDigits(date.s)
       \o (IF date.h < 12 THEN " AM" ELSE " PM") >>

\* BasicReporter.formatDate(date, opts)
FormatDate(date, opts) == IF opts.date THEN ToLocaleTimeString(date) ELSE <<>>

\* BasicReporter.filterAndJoin(arr)
FilterAndJoin(arr) == Join(SelectSeq(arr, LAMBDA x : x # <<>>), <<" ">>)

\* BasicReporter.formatLogObj(logObj, opts), given
\* message = this.formatArgs(logObj.args, opts)
BasicFormatMessage(logObj, message) ==
  IF logObj.type = "box"
  THEN Only({ <<NL>> \o
              Join([i \in 1..Len(boxed) |-> <<" > ">> \o boxed[i]], <<NL>>)
              \o <<NL>> :
              boxed \in
                { SelectSeq(<<Bracket(logObj.tag), logObj.title>>
                              \o Split(message), LAMBDA l : l # <<>>) } })
  ELSE FilterAndJoin(<<Bracket(<<logObj.type>>), Bracket(logObj.tag), message>>)

\* BasicReporter.formatLogObj(logObj, opts)
BasicFormatLogObj(logObj, heap, opts, color) ==
  Only({ IF ~message.ok THEN message
         ELSE Returned(BasicFormatMessage(logObj, message.value)) :
         message \in {FormatArgs("basic", logObj.args, heap, opts, color)} })

\* The options formatLine builds: { columns: stdout.columns || 0,
\* ...ctx.options.formatOptions }: every key of formatOptions is copied and
\* overrides columns.  An absent date reads as false and an absent errorLevel
\* as 0 wherever the reporters read them.
LineOpts(ctx) ==
  ctx.formatOptions
    @@ [columns |-> ctx.columns, date |-> FALSE, errorLevel |-> 0]

\* BasicReporter.formatLine(logObj, ctx) of the Basic reporter
BasicFormatLine(logObj, heap, ctx) ==
  BasicFormatLogObj(logObj, heap, LineOpts(ctx), ctx.color)

\* The stream BasicReporter.log writes to.
LogTarget(logObj) == IF logObj.level < 2 THEN "stderr" ELSE "stdout"

\* The text BasicReporter.log writes.
LogText(line) == line \o <<NL>>

\* utils/stream writeStream(data, stream): one write of data to the stream.
WriteStream(data, stream) == Append(stream, data)

(***************************************************************************)
(* reporters/fancy.ts                                                      *)
(***************************************************************************)
TYPE_COLOR_MAP ==
  [info |-> "cyan", fail |-> "red", success |-> "green", ready |-> "green",
   start |-> "magenta"]

LEVEL_COLOR_MAP == [l \in {0, 1} |-> IF l = 0 THEN "red" ELSE "yellow"]

\* s(c, fallback)
S(c, fallback, unicode) == IF unicode THEN <<c>> ELSE <<fallback>>

TYPE_ICONS(unicode) ==
  [error |-> S("U+2716", "U+00D7", unicode),
   fatal |-> S("U+2716", "U+00D7", unicode),
   ready |-> S("U+2714", "U+221A", unicode),
   warn |-> S("U+26A0", "U+203C", unicode),
   info |-> S("U+2139", "i", unicode),
   success |-> S("U+2714", "U+221A", unicode),
   debug |-> S("U+2699", "D", unicode),
   trace |-> S("U+2192", "U+2192", unicode),
   fail |-> S("U+2716", "U+00D7", unicode),
   start |-> S("U+25D0", "o", unicode),
   log |-> <<>>]

\* The string-named members every plain object inherits from
\* Object.prototype: a lookup table[name] finds a function (or, for
\* __proto__, an object) there.
ObjectPrototype ==
  { "constructor", "__defineGetter__", "__defineSetter__", "hasOwnProperty",
    "__lookupGetter__", "__lookupSetter__", "isPrototypeOf",
    "propertyIsEnumerable", "toString", "valueOf", "__proto__",
    "toLocaleString" }

\* The value of an inherited member, which is no string.
Inherited(name) == "Object.prototype." \o name

IsInherited(v) == \E name \in ObjectPrototype : v = Inherited(name)

\* String.prototype.toUpperCase on the type names of the model
ToUpperCase ==
  [info |-> "INFO", error |-> "ERROR", warn |-> "WARN", log |-> "LOG",
   box |-> "BOX", trace |-> "TRACE", success |-> "SUCCESS",
   start |-> "START", custom |-> "CUSTOM", constructor |-> "CONSTRUCTOR",
   toString |-> "TOSTRING"]
  @@ "__defineGetter__" :> "__DEFINEGETTER__"
  @@ "__proto__" :> "__PROTO__"

\* "bg" + color[0].toUpperCase() + color.slice(1)
BgName ==
  [red |-> "bgRed", green |-> "bgGreen", yellow |-> "bgYellow",
   magenta |-> "bgMagenta", cyan |-> "bgCyan", white |-> "bgWhite",
   gray |-> "bgGray"]

\* getColor(color): the name of the colorette function it returns.  A
\* value that is no colour name is no key of colorette.
GetColor(c) == IF c \in DOMAIN Colorette THEN c ELSE "white"

\* getBgColor(color): the name of the colorette function it returns, or the
\* TypeError of color[0].toUpperCase() for a color that is no string.
GetBgColor(c) ==
  IF IsInherited(c) THEN Thrown("TypeError")
  ELSE Returned(IF BgName[c] \in DOMAIN Colorette THEN BgName[c]
                ELSE "bgWhite")

\* The typeColor of FancyReporter.formatType: TYPE_COLOR_MAP[type] ||
\* LEVEL_COLOR_MAP[level] || "gray", the first lookup finding the own keys
\* of the table and the members inherited from Object.prototype.
TypeColor(logObj) ==
  IF logObj.type \in DOMAIN TYPE_COLOR_MAP THEN TYPE_COLOR_MAP[logObj.type]
  ELSE IF logObj.type \in ObjectPrototype THEN Inherited(logObj.type)
  ELSE IF logObj.level \in DOMAIN LEVEL_COLOR_MAP
       THEN LEVEL_COLOR_MAP[logObj.level]
       ELSE "gray"

\* FancyReporter.formatType(logObj, isBadge, opts): Returned(string) or
\* Thrown(exception)
FormatType(logObj, isBadge, color, unicode) ==
  LET typeColor == TypeColor(logObj)
      _type ==
        IF logObj.type \in DOMAIN TYPE_ICONS(unicode)
        THEN TYPE_ICONS(unicode)[logObj.type]
        ELSE IF logObj.icon # <<>> THEN logObj.icon ELSE <<logObj.type>>
  IN  IF isBadge
      THEN IF ~GetBgColor(typeColor).ok THEN GetBgColor(typeColor)
           ELSE Returned(
                  Colorize(GetBgColor(typeColor).value,
                           Colorize("black",
                                    <<" ", ToUpperCase[logObj.type], " ">>,
                                    color),
                           color))
      ELSE Returned(IF _type # <<>>
                    THEN Colorize(GetColor(typeColor), _type, color)
                    ELSE <<>>)

\* highlightBackticks(str): every backtick, run of one or more characters
\* other than a backtick, backtick is replaced by the run in cyan.
RECURSIVE HighlightBackticks(_, _)
HighlightBackticks(str, color) ==
  IF str = <<>> THEN <<>>
  ELSE IF Head(str) # Backtick
  THEN <<Head(str)>> \o HighlightBackticks(Tail(str), color)
  ELSE LET closes == {j \in 2..Len(str) : str[j] = Backtick}
       IN  IF closes = {} THEN str
           ELSE LET j == CHOOSE a \in closes : \A b \in closes : a <= b
                IN  IF j = 2
                    THEN <<Backtick>> \o HighlightBackticks(Tail(str), color)
                    ELSE Colorize("cyan", SubSeq(str, 2, j - 1), color)
                           \o HighlightBackticks(SubSeq(str, j + 1, Len(str)),
                                                 color)

\* The text FancyReporter.formatLogObj hands to box()
BoxMessage(lines) == lines[1]

RightSegment_WideOnly(tag, coloredDate, opts) ==
  FilterAndJoin(IF opts.columns >= 80 THEN <<tag, coloredDate>> ELSE <<tag>>)

\* The right segment of FancyReporter.formatLogObj
RightSegment(tag, coloredDate, opts) ==
  FilterAndJoin(IF opts.columns # 0 THEN <<tag, coloredDate>> ELSE <<tag>>)

\* One line of a stack trace: "    at <function> (<location>)", or
\* "    at <location>" for a frame without a function name.
StackLine(frame) ==
  <<" ", " ", " ", " ", "at ">>
    \o (IF frame.fn # "" THEN <<frame.fn \o " ", "(", frame.loc, ")">>
        ELSE <<frame.loc>>)

\* (new Error("Trace: " + logObj.message)).stack, captured in formatLogObj:
\* "Error: " and the message, then the frame of formatLogObj, named after
\* the class of the receiver, and the frames of its callers, the innermost
\* first, Error.stackTraceLimit frames at most.  env is the environment of
\* the call: [receiver, stackTraceLimit, callers].
TraceStack(logObj, env) ==
  LET message == IF "message" \in DOMAIN logObj THEN logObj.message
                 ELSE <<"undefined">>
      all == <<[fn |-> env.receiver \o ".formatLogObj",
                loc |-> "fancy.ts:111:20"]>> \o env.callers
      frames == SubSeq(all, 1, IF Len(all) < env.stackTraceLimit THEN Len(all)
                               ELSE env.stackTraceLimit)
  IN  <<"Error: Trace: ">> \o message
        \o Join([i \in 1..Len(frames) |-> <<NL>> \o StackLine(frames[i])], <<>>)

\* The first line of FancyReporter.formatLogObj: left and right side by
\* side when the terminal is wide enough, else right in brackets before left.
FancyLine(left, right, opts, color) ==
  LET space == opts.columns - StringWidth(left) - StringWidth(right) - 2
  IN  IF space > 0 /\ opts.columns >= 80
      THEN left \o Repeat(<<" ">>, space) \o right
      ELSE (IF right # <<>>
            THEN Colorize("gray", <<"[">> \o right \o <<"]">>, color)
                   \o <<" ">>
            ELSE <<>>) \o left

\* FancyReporter.formatLogObj(logObj, opts), given the lines of
\* this.formatArgs(logObj.args, opts)
FancyFormatLines(logObj, lines, opts, color, unicode, env) ==
  LET message == lines[1]
      additional == Tail(lines)
      date == FormatDate(logObj.date, opts)
      coloredDate == Colorize("gray", date, color)
      isBadge ==
        IF "badge" \in DOMAIN logObj THEN logObj.badge ELSE logObj.level < 2
      formatType == FormatType(logObj, isBadge, color, unicode)
      type == formatType.value
      tag == Colorize("gray", logObj.tag, color)
      line ==
        Only({ FancyLine(left, right, opts, color) :
               left \in {FilterAndJoin(<<type,
                                         HighlightBackticks(message, color)>>)},
               right \in {RightSegment(tag, coloredDate, opts)} })
          \o HighlightBackticks(
               IF additional # <<>>
               THEN <<NL>> \o Join(additional, <<NL>>) ELSE <<>>,
               color)
          \o (IF logObj.type = "trace"
              THEN FancyFormatStack(TraceStack(logObj, env), opts, color)
              ELSE <<>>)
  IN  IF logObj.type = "box"
      THEN Box(HighlightBackticks(BoxMessage(lines), color),
               [title |-> logObj.title,
                style |-> IF "style" \in DOMAIN logObj
                          THEN logObj.style ELSE <<>>],
               color)
      ELSE IF ~formatType.ok THEN formatType
      ELSE Returned(IF isBadge THEN <<NL>> \o line \o <<NL>> ELSE line)

\* FancyReporter.formatLogObj(logObj, opts), called in the environment env
FancyFormatLogObj(logObj, heap, opts, color, unicode, env) ==
  Only({ IF ~formatted.ok THEN formatted
         ELSE Only({ FancyFormatLines(logObj, lines, opts, color, unicode,
                                      env) :
                     lines \in {Split(formatted.value)} }) :
         formatted \in {FormatArgs("fancy", logObj.args, heap, opts, color)} })

(***************************************************************************)
(* Inputs of the reporters.                                                *)
(***************************************************************************)
MaxLevel == 3
MaxWrites == 2

LongMessage ==
  "0123456789012345678901234567890123456789012345678901234567890123456789012345678901234567"

\* An acyclic chain 1 -> 2 and an error that is its own cause.
ChainHeap ==
  [e \in ErrIds |->
     [message |-> ErrMessage(e), stack |-> ErrStack(e, "frames"),
      cause |-> IF e = 1 THEN 2 ELSE 0]]

SelfCauseHeap ==
  [e \in ErrIds |->
     [message |-> ErrMessage(e), stack |-> ErrStack(e, "frames"),
      cause |-> IF e = 1 THEN 1 ELSE 0]]

\* <<args, heap>> pairs
PlainArgInputs ==
  { <<<<[str |-> <<"hello">>]>>, ChainHeap>>,
    <<<<[str |-> <<"run ", Backtick, "npm i", Backtick, NL, "second">>]>>,
      ChainHeap>>,
    <<<<[str |-> <<"one">>], [str |-> <<"two", NL, "three", NL, "four">>]>>,
      ChainHeap>>,
    <<<<[str |-> <<LongMessage>>]>>, ChainHeap>> }

ErrorArgInputs ==
  { <<<<[str |-> <<"failed:">>], [err |-> 1]>>, ChainHeap>>,
    <<<<[err |-> 1]>>, SelfCauseHeap>> }

DateInputs == { [h |-> 9, m |-> 5, s |-> 7], [h |-> 14, m |-> 30, s |-> 0] }

ColumnInputs == {0, 40, 80, 120}

LineLogInputs ==
  { [type |-> t, level |-> l, args |-> ah[1], tag |-> tag, title |-> <<>>,
     date |-> d, icon |-> <<>>] :
    t \in {"info", "trace", "custom", "constructor"}, l \in {0, MaxLevel},
    ah \in PlainArgInputs \cup ErrorArgInputs, tag \in {<<>>, <<"app">>},
    d \in DateInputs }

WithBadge(objs) ==
  objs \cup { [b \in {"badge"} |-> v] @@ o : o \in objs, v \in BOOLEAN }

BoxLogInputs ==
  { [type |-> "box", level |-> 2, args |-> ah[1], tag |-> <<>>,
     title |-> title, date |-> [h |-> 9, m |-> 5, s |-> 7], icon |-> <<>>] :
    ah \in PlainArgInputs, title \in {<<>>, <<"Title">>} }

WithStyle(objs) ==
  objs \cup { [k \in {"style"} |-> st] @@ o :
           o \in objs,
           st \in { [padding |-> 1, valign |-> "top"],
                    [borderStyle |-> [name |-> "dotted"]] } }

\* The environments formatLogObj is called in: the class of the receiver,
\* Error.stackTraceLimit (10 unless the program sets it) and the frames of the
\* callers: a call from a module's top level, from a function, through
\* formatLine and log, and from recursions deeper than the limit.
TopLevel == <<[fn |-> "", loc |-> "main.mjs:9:1"]>>

DefaultEnv ==
  [receiver |-> "FancyReporter", stackTraceLimit |-> 10, callers |-> TopLevel]

EnvInputs ==
  { DefaultEnv,
    [receiver |-> "My", stackTraceLimit |-> 10,
     callers |-> <<[fn |-> "", loc |-> "main.mjs:9:67"],
                   [fn |-> "run", loc |-> "main.mjs:8:69"],
                   [fn |-> "", loc |-> "main.mjs:9:1"]>>],
    [receiver |-> "FancyReporter", stackTraceLimit |-> 10,
     callers |-> <<[fn |-> "FancyReporter.formatLine", loc |-> "basic.ts:79:17"],
                   [fn |-> "FancyReporter.log", loc |-> "basic.ts:86:23"],
                   [fn |-> "", loc |-> "main.mjs:11:49"],
                   [fn |-> "run", loc |-> "main.mjs:8:69"],
                   [fn |-> "", loc |-> "main.mjs:11:1"]>>],
    [receiver |-> "FancyReporter", stackTraceLimit |-> 10,
     callers |-> [i \in 1..11 |-> [fn |-> "walk", loc |-> "main.mjs:5:10"]]],
    [receiver |-> "FancyReporter", stackTraceLimit |-> 3,
     callers |-> [i \in 1..4 |-> [fn |-> "walk", loc |-> "main.mjs:5:10"]]],
    [receiver |-> "Object", stackTraceLimit |-> 0, callers |-> TopLevel] }

\* logObj.message: absent, one line, or a line followed by a line that
\* reads as a stack location.
MessageInputs ==
  { <<"hello">>,
    <<"hello", NL, " ", " ", " ", " ", "at ", "evil ", "(", "nowhere.js:1:1",
      ")">> }

WithMessage(objs) ==
  objs \cup { [k \in {"message"} |-> m] @@ o :
              o \in {x \in objs : x.type = "trace" /\ x.tag = <<>>},
              m \in MessageInputs }

HeapOf(args) ==
  IF \E ah \in ErrorArgInputs : ah[1] = args /\ ah[2] = SelfCauseHeap
  THEN SelfCauseHeap ELSE ChainHeap

\* FancyReporter.formatLogObj(logObj, opts)
CallFancyFormatLogObj ==
  /\ call = NoCall
  /\ \E logObj \in WithMessage(WithBadge(LineLogInputs))
                     \cup WithStyle(BoxLogInputs),
        columns \in ColumnInputs, date \in BOOLEAN, color \in BOOLEAN :
       \E opts \in {[columns |-> columns, date |-> date, errorLevel |-> 0]},
          heap \in {HeapOf(logObj.args)},
          env \in IF logObj.type = "trace" THEN EnvInputs ELSE {DefaultEnv} :
         \* (the stack is captured for a record of type "trace" only)
         /\ call' = [op |-> "fancy.formatLogObj", logObj |-> logObj,
                     heap |-> heap, opts |-> opts, color |-> color,
                     unicode |-> TRUE, env |-> env]
         /\ ret' = FancyFormatLogObj(logObj, heap, opts, color, TRUE, env)
         /\ UNCHANGED <<stdout, stderr>>

\* FancyReporter.formatType(logObj, isBadge, opts)
CallFormatType ==
  /\ call = NoCall
  /\ \E type \in {"info", "success", "start", "error", "warn", "log", "custom",
                  "constructor", "toString", "__defineGetter__",
                  "__proto__"},
        level \in 0..MaxLevel, icon \in {<<>>, <<"*">>}, isBadge \in BOOLEAN,
        color \in BOOLEAN, unicode \in BOOLEAN :
       LET logObj == [type |-> type, level |-> level, icon |-> icon]
       IN  /\ call' = [op |-> "fancy.formatType", logObj |-> logObj,
                       isBadge |-> isBadge, color |-> color,
                       unicode |-> unicode]
           /\ ret' = FormatType(logObj, isBadge, color, unicode)
           /\ UNCHANGED <<stdout, stderr>>

NextFancy == CallFancyFormatLogObj \/ CallFormatType

SpecFancy == Init /\ [][NextFancy]_vars

LogInputs ==
  { [type |-> t, level |-> l, args |-> ah[1], tag |-> <<"app">>,
     title |-> <<>>, date |-> [h |-> 9, m |-> 5, s |-> 7], icon |-> <<>>] :
    t \in {"info", "box"}, l \in 0..MaxLevel,
    ah \in { <<<<[str |-> <<"hello">>]>>, ChainHeap>> } \cup ErrorArgInputs }

\* BasicReporter.log(logObj, ctx): formatLine, then one writeStream of
\* line + "\n" to ctx.options.stderr or ctx.options.stdout.  An exception of
\* formatLine leaves log before the write.
CallLog ==
  /\ Len(stdout) + Len(stderr) < MaxWrites
  /\ \E logObj \in LogInputs,
        formatOptions \in {<<>>, [date |-> TRUE], [errorLevel |-> 1]} :
       \E heap \in {HeapOf(logObj.args)},
          ctx \in {[columns |-> 80, formatOptions |-> formatOptions,
                    color |-> FALSE]} :
         \E line \in {BasicFormatLine(logObj, heap, ctx)} :
           /\ call' = [op |-> "log", logObj |-> logObj, heap |-> heap,
                       ctx |-> ctx]
           /\ IF line.ok
              THEN /\ ret' = Returned(<<>>)
                   /\ IF LogTarget(logObj) = "stderr"
                      THEN /\ stderr' = WriteStream(LogText(line.value), stderr)
                           /\ UNCHANGED stdout
                      ELSE /\ stdout' = WriteStream(LogText(line.value), stdout)
                           /\ UNCHANGED stderr
              ELSE /\ ret' = line
                   /\ UNCHANGED <<stdout, stderr>>

NextLog == CallLog

SpecLog == Init /\ [][NextLog]_vars

(***************************************************************************)
(* Properties.                                                             *)
(***************************************************************************)
Rows(v) == Split(v)

Contains(s, sub) ==
  \E k \in 0..(Len(s) - Len(sub)) : SubSeq(s, k + 1, k + Len(sub)) = sub

AllSpaces(s) == \A i \in 1..Len(s) : s[i] = " "

LeadingSpaces(line) == Len(StripAnsi(line)) - Len(TrimStart(StripAnsi(line)))

BoxReturned == call.op = "box" /\ ret.ok

BoxPadding == PaddingOffset(MergeStyle(call.style).padding)

BoxValign == MergeStyle(call.style).valign

BoxLines == Split(call.text)

HasAnsi(s) == \E i \in 1..Len(s) : s[i] \in AnsiSeqs

\* The part of a row between its two vertical borders, escape sequences
\* removed.
Inner(row) == SubSeq(StripAnsi(row), 2, Len(StripAnsi(row)) - 1)

\* C1: every row of a string returned by box() (top border, blank rows, text
\* rows, bottom border) has the same visible width, widthOffset + 2, where
\* widthOffset is box()'s own widthOffset (the longest line's length plus
\* twice the even padding), whatever the lines, padding, valign and title.
C1_WidthInvariant ==
  BoxReturned =>
    LET rows == Rows(ret.value)
        widthOffset ==
          Max({JsLength(BoxLines[i]) : i \in 1..Len(BoxLines)}) + 2 * BoxPadding
    IN  \A i \in 1..Len(rows) : StringWidth(rows[i]) = widthOffset + 2

C1_Witness ==
  /\ BoxReturned
  /\ call.title # <<>>
  /\ call.color
  /\ Len(BoxLines) > 1
  /\ \E i \in 1..Len(BoxLines) : HasAnsi(BoxLines[i])
  /\ \E i \in 1..Len(BoxLines) : ~HasAnsi(BoxLines[i]) /\ BoxLines[i] # <<>>
  /\ MergeStyle(call.style).padding % 2 = 1

\* C2: formatError on an error whose cause chain is cyclic returns a string
\* (it does not recurse until the call stack is exhausted).
C2_CyclicCauseTerminates ==
  (call.op = "formatError" /\ Cyclic(call.heap)) => ret.ok

\* C3: a lookup of a missing table entry never throws: box() returns a string
\* for every borderColor name and every borderStyle name (no title, a
\* non-negative padding), and formatType for every type and level.
C3_MissingEntryNeverThrows ==
  /\ (call.op = "box" /\ call.title = <<>>
        /\ MergeStyle(call.style).padding >= 0) => ret.ok
  /\ call.op = "fancy.formatType" => ret.ok

\* C4: every call of BasicReporter.log performs exactly one stream write, to
\* the error stream when level < 2 and to the standard output stream
\* otherwise, of the formatted line followed by one appended newline.
C4_OneWritePerLog ==
  [][ call'.op = "log" =>
        LET line == BasicFormatLine(call'.logObj, call'.heap, call'.ctx)
        IN  /\ line.ok
            /\ IF call'.logObj.level < 2
               THEN /\ stderr' = Append(stderr, line.value \o <<NL>>)
                    /\ stdout' = stdout
               ELSE /\ stdout' = Append(stdout, line.value \o <<NL>>)
                    /\ stderr' = stderr ]_vars

C5_Expected(type, level) ==
  IF type = "info" THEN "cyan"
  ELSE IF type = "success" THEN "green"
  ELSE IF type = "start" THEN "magenta"
  ELSE IF level = 0 THEN "red"
  ELSE IF level = 1 THEN "yellow"
  ELSE "gray"

C5_Background(c) ==
  IF c = "cyan" THEN "bgCyan"
  ELSE IF c = "green" THEN "bgGreen"
  ELSE IF c = "magenta" THEN "bgMagenta"
  ELSE IF c = "red" THEN "bgRed"
  ELSE IF c = "yellow" THEN "bgYellow"
  ELSE "bgWhite"

\* C5: the type segment of the Fancy reporter is coloured by the chain type
\* table, then level table, then gray: an icon is wrapped in that colour, a
\* badge in the background of that colour (white where the colour has no
\* background).
C5_ColorChain ==
  (call.op = "fancy.formatType" /\ call.color /\ ret.ok /\ ret.value # <<>>) =>
    LET c == C5_Expected(call.logObj.type, call.logObj.level)
    IN  IF call.isBadge
        THEN ret.value[1] = Colorette[C5_Background(c)][1]
        ELSE ret.value[1] = Colorette[c][1]

C6_TextRow(row, line, padding) ==
  LET inner == Inner(row)
      text == Repeat(<<" ">>, padding) \o StripAnsi(line)
  IN  /\ Len(inner) >= Len(text)
      /\ SubSeq(inner, 1, Len(text)) = text
      /\ AllSpaces(SubSeq(inner, Len(text) + 1, Len(inner)))

\* C6: for a padding that is a non-negative integer,
\* with height = numLines + padding (padding rounded up to even) and the
\* rows below the top border indexed from 0, the text lines occupy, in order,
\* the rows from height - numLines - padding (top), height - numLines
\* (bottom) or floor((height - numLines) / 2) (center), and every other row
\* is a blank bordered row.
C6_VerticalPlacement ==
  (BoxReturned /\ MergeStyle(call.style).padding >= 0) =>
    LET rows == Rows(ret.value)
        n == Len(BoxLines)
        height == n + BoxPadding
        first ==
          IF BoxValign = "top" THEN height - n - BoxPadding
          ELSE IF BoxValign = "bottom" THEN height - n
          ELSE (height - n) \div 2
    IN  /\ Len(rows) = height + 2
        /\ \A i \in 0..(height - 1) :
             IF i >= first /\ i < first + n
             THEN C6_TextRow(rows[i + 2], BoxLines[i - first + 1], BoxPadding)
             ELSE AllSpaces(Inner(rows[i + 2]))

C6_Witness ==
  /\ BoxReturned
  /\ BoxValign = "center"
  /\ BoxPadding = 4
  /\ Len(BoxLines) = 2
  /\ BoxLines[1] # <<>> /\ BoxLines[2] # <<>> /\ BoxLines[1] # BoxLines[2]
  /\ C6_TextRow(Rows(ret.value)[4], BoxLines[1], BoxPadding)
  /\ C6_TextRow(Rows(ret.value)[5], BoxLines[2], BoxPadding)

\* C7: box() derives the width from the visible width of the lines:
\* widthOffset = max visible width of a line + twice the padding, so a line
\* with colour escape sequences makes the box no wider than its visible text.
C7_VisibleWidth ==
  BoxReturned =>
    StringWidth(Rows(ret.value)[1]) - 2 =
      Max({StringWidth(BoxLines[i]) : i \in 1..Len(BoxLines)}) + 2 * BoxPadding

\* C8: in the output of formatError, for the Basic and the Fancy reporter,
\* every stack frame line of the error at depth errorLevel of the cause
\* chain is indented by exactly 2 * (errorLevel + 1) spaces.
C8_FrameIndent ==
  (call.op = "formatError" /\ ret.ok) =>
    LET lines == Rows(ret.value)
        chain == Chain(call.heap)
    IN  \A i \in 1..Len(lines), d \in 1..Len(chain) :
          (\E k \in 1..Len(lines[i]) : lines[i][k] = FrameFn(chain[d]))
            => LeadingSpaces(lines[i]) = 2 * d

C9_Line ==
  call.op = "fancy.formatLogObj" /\ ret.ok /\ call.logObj.type # "box"

C9_DateShown ==
  \E i \in 1..Len(ret.value) :
    ret.value[i] = ToLocaleTimeString(call.logObj.date)[1]

\* C9 as stated: for every column count below 80 (unknown or 1..79) the
\* right segment is the tag alone and the date never appears in the output.
C9_Original == (C9_Line /\ call.opts.columns < 80) => ~C9_DateShown

\* C9 as amended: the right segment is tag + date whenever the column count
\* is known (non-zero) and the tag alone only when it is 0; the date appears
\* in the output exactly when date rendering is enabled and columns # 0.
C9_DateWhenColumnsKnown ==
  C9_Line => (C9_DateShown <=> (call.opts.date /\ call.opts.columns # 0))

C9_Witness ==
  /\ C9_Line
  /\ call.opts.date
  /\ call.opts.columns = 40
  /\ C9_DateShown

\* C10: for a record of type "box" the Fancy reporter hands the whole
\* formatted message to box(): a message of n lines gives a box of n text
\* rows, one per line of the message, in order.
C10_BoxKeepsEveryLine ==
  (call.op = "fancy.formatLogObj" /\ call.logObj.type = "box" /\ ret.ok) =>
    LET formatted ==
          FormatArgs("fancy", call.logObj.args, call.heap, call.opts,
                     call.color).value
        msg == Split(formatted)
        padding ==
          PaddingOffset(MergeStyle(IF "style" \in DOMAIN call.logObj
                                   THEN call.logObj.style ELSE <<>>).padding)
        rows == Rows(ret.value)
    IN  /\ Len(rows) = Len(msg) + padding + 2
        /\ \A i \in 1..Len(msg) :
             \E r \in 1..Len(rows) :
               Contains(StripAnsi(rows[r]),
                        StripAnsi(HighlightBackticks(msg[i], call.color)))

====
